---- MODULE Spec2Model ----
(***************************************************************************)
(* A model of the getopt option scanner (package getopt, Scanner type).   *)
(*                                                                         *)
(* Strings are sequences of one-character strings; Go's 0-based indices   *)
(* are kept (optind, optpos, idx) and At(s, i) reads s[i].  A *string or  *)
(* *Option is a record with a nil flag.  A run-time panic (index out of   *)
(* range) is the control state pc = "panic".                              *)
(***************************************************************************)
EXTENDS Integers, Sequences, FiniteSets, TLC

VARIABLES
    pc,         \* "start" | "ready" | "error" | "panic"
    optstring,  \* Scanner.optstring (the argument of NewArgv)
    argv,       \* Scanner.argv (the argument of NewArgv)
    optind,     \* Scanner.optind
    arg,        \* Scanner.arg
    optpos,     \* Scanner.optpos
    err,        \* Scanner.err
    progname,   \* Scanner.progname
    ret,        \* what the last call returned
    prev,       \* the cursor (optind, optpos) at the time of the last call
    scanned,    \* the last Scan() returned true and no Option() followed it
    done,       \* some Scan() returned false on a scanner without an error
    opts,       \* the option characters Option() has returned, in order
    calls       \* the number of Option() calls that have returned

vars == <<pc, optstring, argv, optind, arg, optpos, err, progname, ret, prev,
          scanned, done, opts, calls>>

-----------------------------------------------------------------------------
(* Bounds and input sets *)

\* number of argv elements after argv[0]
MaxArgs == 2

\* the values of argv[0]: a path, an option look-alike, the terminator
Argv0s ==
    { <<"b", "/", "p">>, <<"-", "a">>, <<"-", "-">> }

\* the values of argv[1..]
Elements ==
    { <<>>,
      <<"-">>,
      <<"-", "-">>,
      <<"a">>,
      <<"-", "a">>,
      <<"-", "b">>,
      <<"-", "a", "b">>,
      <<"-", "a", "-">>,
      <<"-", "a", ":">>,
      <<"-", "-", "a">> }

Argvs ==
    { <<>> } \cup
    UNION { { <<a0>> \o rest : a0 \in Argv0s, rest \in [1..n -> Elements] } :
            n \in 0..MaxArgs }

\* the optstrings: valid ones and two with a character NewArgv rejects
Optstrings ==
    { <<>>,
      <<"a">>,
      <<"a", "b">>,
      <<"b", "a">>,
      <<"a", ":">>,
      <<"a", ":", "b">>,
      <<"a", "b", ":">>,
      <<"a", ":", ":">>,
      <<"a", "b", ":", ":">>,
      <<"b", "a", ":", ":">>,
      <<":", "a">>,
      <<":", "a", ":">>,
      <<":", "a", "b", ":">>,
      <<":", "a", ":", ":">>,
      <<"a", "a", ":">>,
      <<"a", ":", "a">>,
      <<"?">>,
      <<"a", "?">> }

-----------------------------------------------------------------------------
(* Values *)

At(s, i) == s[i + 1]

\* s[i:]
SliceFrom(s, i) == SubSeq(s, i + 1, Len(s))

NilStr == [nil |-> TRUE, s |-> <<>>]

StrPtr(s) == [nil |-> FALSE, s |-> s]

NilOption == [nil |-> TRUE, Opt |-> "", Arg |-> NilStr]

OptionPtr(c, a) == [nil |-> FALSE, Opt |-> c, Arg |-> a]

NoErr == [kind |-> "nil", c |-> ""]

InvalidOptionError(c) == [kind |-> "InvalidOptionError", c |-> c]

MissingArgumentError(c) == [kind |-> "MissingArgumentError", c |-> c]

OptstringError(c) == [kind |-> "invalid optstring character", c |-> c]

NoRet == [op |-> "none", ok |-> FALSE, opt |-> NilOption, err |-> NoErr, args |-> <<>>]

Upper ==
    { "A", "B", "C", "D", "E", "F", "G", "H", "I", "J", "K", "L", "M",
      "N", "O", "P", "Q", "R", "S", "T", "U", "V", "W", "X", "Y", "Z" }

Lower ==
    { "a", "b", "c", "d", "e", "f", "g", "h", "i", "j", "k", "l", "m",
      "n", "o", "p", "q", "r", "s", "t", "u", "v", "w", "x", "y", "z" }

Digits == { "0", "1", "2", "3", "4", "5", "6", "7", "8", "9" }

isOptionChar(c) == c \in Upper \/ c \in Lower \/ c \in Digits

\* the address of s whatever s is
optArg_NoNormalization(s) == StrPtr(s)

optArg(s) == IF s # <<>> THEN StrPtr(s) ELSE NilStr

\* Option.HasArg
HasArg(o) == ~o.Arg.nil

\* Option.String: the argument, or "" when there is none
String(o) == IF ~o.Arg.nil THEN o.Arg.s ELSE <<>>

\* the index of the last c in s, or -1
IndexByte_Last(s, c) ==
    IF \E i \in 0..(Len(s) - 1) : At(s, i) = c
    THEN CHOOSE i \in 0..(Len(s) - 1) :
            /\ At(s, i) = c
            /\ \A j \in (i + 1)..(Len(s) - 1) : At(s, j) # c
    ELSE -1

\* strings.IndexByte: the index of the first c in s, or -1
IndexByte(s, c) ==
    IF \E i \in 0..(Len(s) - 1) : At(s, i) = c
    THEN CHOOSE i \in 0..(Len(s) - 1) :
            /\ At(s, i) = c
            /\ \A j \in 0..(i - 1) : At(s, j) # c
    ELSE -1

RECURSIVE TrimSlashes(_)
TrimSlashes(p) ==
    IF Len(p) > 0 /\ p[Len(p)] = "/" THEN TrimSlashes(SubSeq(p, 1, Len(p) - 1)) ELSE p

\* path.Base
Base(path) ==
    IF path = <<>> THEN <<".">>
    ELSE LET p == TrimSlashes(path)
             i == IF \E k \in 1..Len(p) : p[k] = "/"
                  THEN CHOOSE k \in 1..Len(p) :
                          p[k] = "/" /\ \A m \in (k + 1)..Len(p) : p[m] # "/"
                  ELSE 0
             q == SubSeq(p, i + 1, Len(p))
         IN IF q = <<>> THEN <<"/">> ELSE q

-----------------------------------------------------------------------------
(* The state before NewArgv is called *)

Init ==
    /\ pc = "start"
    /\ optstring \in Optstrings
    /\ argv \in Argvs
    /\ optind = 0
    /\ arg = <<>>
    /\ optpos = 0
    /\ err = NoErr
    /\ progname = <<>>
    /\ ret = NoRet
    /\ prev = [optind |-> 0, optpos |-> 0]
    /\ scanned = FALSE
    /\ done = FALSE
    /\ opts = <<>>
    /\ calls = 0

Cursor == [optind |-> optind, optpos |-> optpos]

Panic ==
    /\ pc' = "panic"
    /\ ret' = [NoRet EXCEPT !.op = "panic"]
    /\ scanned' = FALSE
    /\ UNCHANGED <<optstring, argv, optind, arg, optpos, err, progname, done,
                   opts, calls>>

\* a cursor that starts at argv[0]
StartCursor_AtArgv0 == [optind |-> 0, optpos |-> 1]

\* the cursor of a new Scanner
StartCursor == [optind |-> 1, optpos |-> 1]

\* the optstring characters NewArgv rejects, by index
BadIndexes == { i \in 0..(Len(optstring) - 1) :
                  ~isOptionChar(At(optstring, i)) /\ At(optstring, i) # ":" }

NewArgv ==
    /\ pc = "start"
    /\ prev' = Cursor
    /\ IF BadIndexes # {}
       THEN LET i == CHOOSE k \in BadIndexes : \A m \in BadIndexes : k <= m
            IN /\ pc' = "error"
               /\ ret' = [NoRet EXCEPT !.op = "NewArgv",
                                       !.err = OptstringError(At(optstring, i))]
               /\ UNCHANGED <<optstring, argv, optind, arg, optpos, err,
                              progname, scanned, done, opts, calls>>
       ELSE IF Len(argv) = 0
       THEN Panic
       ELSE /\ pc' = "ready"
            /\ optind' = StartCursor.optind
            /\ optpos' = StartCursor.optpos
            /\ progname' = Base(At(argv, 0))
            /\ ret' = [NoRet EXCEPT !.op = "NewArgv", !.ok = TRUE]
            /\ UNCHANGED <<optstring, argv, arg, err, scanned, done, opts,
                           calls>>

\* a Scan() that steps over the element it found an option in
ScanReturn_Consumes(ok, a, oi) ==
    [panic |-> FALSE, ok |-> ok, arg |-> a, optind |-> IF ok THEN oi + 1 ELSE oi]

ScanReturn(ok, a, oi) == [panic |-> FALSE, ok |-> ok, arg |-> a, optind |-> oi]

\* a Scan() that forgets the recorded error
ScanStop_IgnoresErr == optind = Len(argv)

\* Scan() returns false at once: argv is used up or an error is recorded
ScanStop == optind = Len(argv) \/ err # NoErr

\* the "--" is left at the cursor
Terminated_NotConsumed(a) == ScanReturn(FALSE, a, optind)

\* Scan() on the element "--"
Terminated(a) == ScanReturn(FALSE, a, optind + 1)

\* the character after the '-' is not looked at
NotAnOption_AnyDash(a) == Len(a) < 2 \/ At(a, 0) # "-"

\* the element does not start an option cluster
NotAnOption(a) == Len(a) < 2 \/ At(a, 0) # "-" \/ ~isOptionChar(At(a, 1))

\* what Scan() does on a scanner whose fields are these
ScanOutcome ==
    IF ScanStop
    THEN ScanReturn(FALSE, arg, optind)
    ELSE IF optind > Len(argv)
    THEN [panic |-> TRUE, ok |-> FALSE, arg |-> arg, optind |-> optind]
    ELSE LET a == At(argv, optind)
         IN IF a = <<"-", "-">>
            THEN Terminated(a)
            ELSE IF NotAnOption(a)
            THEN ScanReturn(FALSE, a, optind)
            ELSE ScanReturn(TRUE, a, optind)

Scan ==
    /\ pc = "ready"
    /\ prev' = Cursor
    /\ LET r == ScanOutcome
       IN IF r.panic
          THEN Panic
          ELSE /\ arg' = r.arg
               /\ optind' = r.optind
               /\ ret' = [NoRet EXCEPT !.op = "Scan", !.ok = r.ok]
               /\ scanned' = r.ok
               /\ done' = (done \/ (~r.ok /\ err = NoErr))
               /\ UNCHANGED <<pc, optstring, argv, optpos, err, progname,
                              opts, calls>>

\* the option character has an argument: optstring[idx+1] is ':'
hasArg(idx) == idx < Len(optstring) - 1 /\ At(optstring, idx + 1) = ":"

\* the second colon looked up one character early
optionalArg_OffByOne(idx) ==
    \/ At(optstring, 0) = ":"
    \/ (idx < Len(optstring) - 1 /\ At(optstring, idx + 1) = ":")

\* no leading-':' rule
optionalArg_NoGlobal(idx) ==
    idx < Len(optstring) - 2 /\ At(optstring, idx + 2) = ":"

\* no '::' rule
optionalArg_GlobalOnly(idx) == At(optstring, 0) = ":"

\* the argument may be left out: a leading ':' or optstring[idx+2] is ':'
optionalArg(idx) ==
    \/ At(optstring, 0) = ":"
    \/ (idx < Len(optstring) - 2 /\ At(optstring, idx + 2) = ":")

OptionReturn(o, e, oi, op) ==
    [panic |-> FALSE, opt |-> o, err |-> e, optind |-> oi, optpos |-> op]

OptionPanic ==
    [panic |-> TRUE, opt |-> NilOption, err |-> err, optind |-> optind,
     optpos |-> optpos]

\* the rest of the element taken from the option character itself
InlineArg_FromOptpos == SliceFrom(arg, optpos)

\* the rest of the current element after the option character
InlineArg == SliceFrom(arg, optpos + 1)

\* the element after an inline argument is skipped as well
InlineArgOption_SkipsNext(optopt) ==
    OptionReturn(OptionPtr(optopt, optArg(InlineArg)), err, optind + 2, 1)

\* option and argument are in the same argv element
InlineArgOption(optopt) ==
    OptionReturn(OptionPtr(optopt, optArg(InlineArg)), err, optind + 1, 1)

\* an optional argument is taken from the next element only if that is not
\* an option
NotOptionLike(optarg) == optarg # <<>> /\ At(optarg, 0) # "-"

\* option argument is in the next argv element
NextArgOption(optopt, idx) ==
    IF ~optionalArg(idx)
    THEN OptionReturn(OptionPtr(optopt, optArg(At(argv, optind + 1))), err,
                      optind + 2, 1)
    ELSE LET optarg == At(argv, optind + 1)
         IN IF NotOptionLike(optarg)
            THEN OptionReturn(OptionPtr(optopt, optArg(At(argv, optind + 1))),
                              err, optind + 2, 1)
            ELSE OptionReturn(OptionPtr(optopt, NilStr), err, optind + 1, 1)

\* argument is required but was not provided
NoArgProvided(optopt, idx) ==
    IF optionalArg(idx)
    THEN OptionReturn(OptionPtr(optopt, NilStr), err, optind + 1, 1)
    ELSE OptionReturn(NilOption, MissingArgumentError(optopt), optind, optpos)

\* the branch of Option() for an option that has an argument
ArgOption(optopt, idx) ==
    IF Len(arg) > optpos + 1
    THEN InlineArgOption(optopt)
    ELSE IF optind + 1 < Len(argv)
    THEN NextArgOption(optopt, idx)
    ELSE NoArgProvided(optopt, idx)

\* the offset is not reset at the end of the element
NoArgOption_KeepsOffset(optopt) ==
    IF Len(arg) = optpos + 1
    THEN OptionReturn(OptionPtr(optopt, NilStr), err, optind + 1, optpos + 1)
    ELSE OptionReturn(OptionPtr(optopt, NilStr), err, optind, optpos + 1)

\* a no-argument option ends its element
NoArgOption_DropsCluster(optopt) ==
    OptionReturn(OptionPtr(optopt, NilStr), err, optind + 1, 1)

\* the offset is not advanced inside a cluster
NoArgOption_Stays(optopt) ==
    IF Len(arg) = optpos + 1
    THEN OptionReturn(OptionPtr(optopt, NilStr), err, optind + 1, 1)
    ELSE OptionReturn(OptionPtr(optopt, NilStr), err, optind, optpos)

\* the branch of Option() for a no-argument option
NoArgOption(optopt) ==
    IF Len(arg) = optpos + 1
    THEN OptionReturn(OptionPtr(optopt, NilStr), err, optind + 1, 1)
    ELSE OptionReturn(OptionPtr(optopt, NilStr), err, optind, optpos + 1)

\* what Option() does on a scanner whose fields are these
OptionOutcome ==
    IF optpos >= Len(arg)
    THEN OptionPanic
    ELSE LET optopt == At(arg, optpos)
             idx == IndexByte(optstring, optopt)
         IN IF idx < 0
            THEN OptionReturn(NilOption, InvalidOptionError(optopt), optind,
                              optpos)
            ELSE IF hasArg(idx)
            THEN ArgOption(optopt, idx)
            ELSE NoArgOption(optopt)

Option ==
    /\ pc = "ready"
    /\ scanned
    /\ prev' = Cursor
    /\ LET r == OptionOutcome
       IN IF r.panic
          THEN Panic
          ELSE /\ optind' = r.optind
               /\ optpos' = r.optpos
               /\ err' = r.err
               /\ ret' = [NoRet EXCEPT !.op = "Option", !.ok = ~r.opt.nil,
                                       !.opt = r.opt,
                                       !.err = IF r.opt.nil THEN r.err ELSE NoErr]
               /\ scanned' = FALSE
               /\ opts' = IF r.opt.nil THEN opts ELSE Append(opts, r.opt.Opt)
               /\ calls' = calls + 1
               /\ UNCHANGED <<pc, optstring, argv, arg, progname, done>>

\* the rest taken from one element too far
ArgsResult_SkipsOne ==
    IF optind < Len(argv) THEN SliceFrom(argv, optind + 1) ELSE <<>>

\* what Args() returns; a nil slice is the empty sequence
ArgsResult == IF optind < Len(argv) THEN SliceFrom(argv, optind) ELSE <<>>

Args ==
    /\ pc = "ready"
    /\ prev' = Cursor
    /\ ret' = [NoRet EXCEPT !.op = "Args", !.ok = TRUE, !.args = ArgsResult]
    /\ UNCHANGED <<pc, optstring, argv, optind, arg, optpos, err, progname,
                   scanned, done, opts, calls>>

Next == NewArgv \/ Scan \/ Option \/ Args

Spec == Init /\ [][Next]_vars

\* the caller's loop, for Scan() { Option() }: Scan() is called first and
\* after each Option(), whatever that returned
LoopScan ==
    /\ ret.op \in {"NewArgv", "Option"}
    /\ Scan

\* the loop is left when Scan() returns false; Args() is then read once
LoopArgs ==
    /\ ret.op = "Scan"
    /\ ~ret.ok
    /\ Args

LoopNext == NewArgv \/ LoopScan \/ Option \/ LoopArgs

\* every call returns, so the caller always takes its next step
LoopSpec == Init /\ [][LoopNext]_vars /\ WF_vars(LoopNext)

-----------------------------------------------------------------------------
(* The vocabulary of the properties: the grammar the optstring declares   *)
(* and the step the last call made.                                       *)

ColonAt(i) == i < Len(optstring) /\ At(optstring, i) = ":"

\* c is an option character that the optstring declares
Declared(c) == isOptionChar(c) /\ \E i \in 0..(Len(optstring) - 1) : At(optstring, i) = c

FirstDecl(c) == CHOOSE i \in 0..(Len(optstring) - 1) :
                    At(optstring, i) = c /\ \A j \in 0..(i - 1) : At(optstring, j) # c

\* the argument policy of a declared option: the colons after its first
\* declaration
Policy(c) ==
    IF ColonAt(FirstDecl(c) + 1) /\ ColonAt(FirstDecl(c) + 2) THEN "Optional"
    ELSE IF ColonAt(FirstDecl(c) + 1) THEN "Required"
    ELSE "None"

GlobalOptional == ColonAt(0)

\* the last call was Option(), made right after a Scan() that returned true
Decoded == pc = "ready" /\ ret.op = "Option"

\* the element, and the character in it, that the last Option() decoded
Elem == At(argv, prev.optind)

Ch == At(Elem, prev.optpos)

LastChar == prev.optpos = Len(Elem) - 1

HasNext == prev.optind + 1 < Len(argv)

NextElem == At(argv, prev.optind + 1)

OptionLike(e) == e = <<>> \/ At(e, 0) = "-"

Moved(n) == optind = prev.optind + n /\ optpos = 1

Unmoved == optind = prev.optind /\ optpos = prev.optpos

\* Option() returned the option c with the argument a and no error
Returned(c, a) == ret.opt = OptionPtr(c, a) /\ ret.err = NoErr /\ err = NoErr

\* Option() decodes the element Scan() looked at
TypeOK ==
    /\ pc \in {"start", "ready", "error", "panic"}
    /\ scanned => (pc = "ready" /\ arg = At(argv, optind) /\ optpos < Len(arg))
    /\ Decoded => (arg = Elem /\ prev.optpos < Len(Elem))

-----------------------------------------------------------------------------
(* C1: once Scan() has returned false because of "--", a non-option       *)
(* element or the end of argv, every later Scan() returns false too and   *)
(* no further option is produced.                                         *)
C1_DoneSticky ==
    done => /\ ~(ret.op = "Scan" /\ ret.ok)
            /\ ~scanned

(* C2: after Option() has returned an error every later Scan() returns    *)
(* false, so no Option() follows and the error is the last result of the  *)
(* loop; the cursor stays on the offending element, which is the first    *)
(* element of Args().                                                     *)
C2_Failed == pc = "ready" /\ err # NoErr

C2_FailureSticky ==
    /\ [](C2_Failed =>
            /\ err.kind \in {"InvalidOptionError", "MissingArgumentError"}
            /\ ~scanned
            /\ ret.op = "Scan" => ~ret.ok
            /\ ret.op = "Option" => (ret.opt.nil /\ ret.err = err)
            /\ optind < Len(argv)
            /\ At(At(argv, optind), optpos) = err.c
            /\ ArgsResult = SubSeq(argv, optind + 1, Len(argv))
            /\ Head(ArgsResult) = At(argv, optind))
    /\ [][C2_Failed => /\ err' = err
                       /\ optind' = optind
                       /\ optpos' = optpos
                       /\ ret'.op # "Option"]_vars

\* a Scan() after the error, with a valid option in a later element
C2_Witness ==
    /\ C2_Failed
    /\ ret.op = "Scan"
    /\ optind + 1 < Len(argv)
    /\ ~NotAnOption(At(argv, optind + 1))
    /\ Declared(At(At(argv, optind + 1), 1))
(* C3: an option declared with exactly one ':' that is the last          *)
(* character of its element, with a further element in argv, takes the    *)
(* whole next element as its argument whatever its content, and the       *)
(* cursor moves to (elementIndex + 2, 1) -- for every valid optstring.    *)
C3_Case == Decoded /\ Declared(Ch) /\ Policy(Ch) = "Required" /\ LastChar /\ HasNext

C3_NextTokenCapture ==
    C3_Case =>
        /\ ~ret.opt.nil
        /\ ret.opt.Opt = Ch
        /\ String(ret.opt) = NextElem
        /\ err = NoErr
        /\ Moved(2)

(* C3 as amended: the same when the optstring does not start with ':',    *)
(* the argument being absent when the next element is the empty string.   *)
C3_NextTokenCaptureAmended ==
    (C3_Case /\ ~GlobalOptional) =>
        /\ Moved(2)
        /\ NextElem # <<>> => Returned(Ch, StrPtr(NextElem))
        /\ NextElem = <<>> => Returned(Ch, NilStr)

\* the next element begins with '-' and is taken all the same
C3_Witness ==
    /\ C3_Case
    /\ ~GlobalOptional
    /\ NextElem \in { <<"-", "b">>, <<"-", "-">> }
    /\ ret.opt.Arg = StrPtr(NextElem)
    /\ optind = prev.optind + 2

(* C4: when the optstring starts with ':', an option declared with a      *)
(* single ':' that is the last character of its element does not take a   *)
(* next element that is empty or begins with '-': it is returned without  *)
(* argument and without error, the cursor moves to (elementIndex + 1, 1), *)
(* and the next Scan() looks at that next element.                        *)
C4_Case ==
    /\ Decoded /\ GlobalOptional /\ Declared(Ch) /\ Policy(Ch) = "Required"
    /\ LastChar /\ HasNext /\ OptionLike(NextElem)

C4_GlobalOptionalFallback ==
    /\ [](C4_Case => (Returned(Ch, NilStr) /\ Moved(1)))
    /\ [][(C4_Case /\ Scan) => arg' = NextElem]_vars

\* the next element is an option of its own, scanned after the fallback
C4_Witness ==
    /\ pc = "ready"
    /\ ret.op = "Scan"
    /\ ret.ok
    /\ optind >= 2
    /\ optpos = 1
    /\ GlobalOptional
    /\ At(argv, optind - 1) = <<"-", "a">>
    /\ Policy("a") = "Required"
    /\ arg = <<"-", "b">>

(* C5: an option declared with '::' that is the last character of its     *)
(* element, with a further element in argv, takes that element as its     *)
(* argument exactly when it is non-empty and does not begin with '-'      *)
(* (elementIndex + 2); otherwise the option has no argument and the       *)
(* cursor moves to (elementIndex + 1, 1).                                 *)
C5_Case == Decoded /\ Declared(Ch) /\ Policy(Ch) = "Optional" /\ LastChar /\ HasNext

C5_OptionalLookahead ==
    C5_Case =>
        IF ~OptionLike(NextElem)
        THEN Returned(Ch, StrPtr(NextElem)) /\ Moved(2)
        ELSE Returned(Ch, NilStr) /\ Moved(1)

\* the next element begins with '-' and is left in place
C5_Witness ==
    /\ C5_Case
    /\ ~GlobalOptional
    /\ NextElem = <<"-", "b">>
    /\ ret.opt.Arg.nil
    /\ optind = prev.optind + 1

(* C6: an option with an argument (Required or Optional, with or without  *)
(* a leading ':') decoded at offset p of an element with characters after *)
(* it takes exactly the suffix after p as its argument, verbatim; the     *)
(* next element is not consumed and the cursor moves to                   *)
(* (elementIndex + 1, 1).                                                 *)
C6_Case == Decoded /\ Declared(Ch) /\ Policy(Ch) # "None" /\ ~LastChar

C6_GreedyInlineCapture ==
    C6_Case =>
        /\ Returned(Ch, StrPtr(SubSeq(Elem, prev.optpos + 2, Len(Elem))))
        /\ Moved(1)

\* the suffix spells a declared option, or begins with '-'
C6_Witness ==
    /\ C6_Case
    /\ \/ Declared(At(Elem, prev.optpos + 1))
       \/ At(Elem, prev.optpos + 1) = "-"
    /\ ~ret.opt.Arg.nil
    /\ Len(ret.opt.Arg.s) = Len(Elem) - prev.optpos - 1
(* C7: a Scan() that finds the element "--" at the cursor returns false   *)
(* and advances elementIndex by exactly 1, so that Args() is the argv     *)
(* elements after that "--", verbatim and in order.                       *)
C7_Case ==
    /\ pc = "ready"
    /\ ret.op = "Scan"
    /\ prev.optind < Len(argv)
    /\ At(argv, prev.optind) = <<"-", "-">>

C7_Terminator ==
    C7_Case =>
        /\ ~ret.ok
        /\ ~scanned
        /\ optind = prev.optind + 1
        /\ optpos = prev.optpos
        /\ err = NoErr
        /\ ArgsResult = SubSeq(argv, prev.optind + 2, Len(argv))

\* what follows the "--" looks like an option or is another "--"
C7_Witness ==
    /\ C7_Case
    /\ Len(ArgsResult) >= 1
    /\ Head(ArgsResult) \in { <<"-", "a">>, <<"-", "-">> }

(* C8: Option() returns MissingArgumentError(c) exactly when c is         *)
(* declared with a single ':', the optstring does not start with ':', c   *)
(* is the last character of its element and that element is the last of   *)
(* argv; the cursor is then not moved.  In every other case of an option   *)
(* with an argument and no further element the option is returned         *)
(* without argument and without error and elementIndex advances by 1.     *)
C8_MissingCase ==
    /\ Declared(Ch) /\ Policy(Ch) = "Required" /\ ~GlobalOptional
    /\ LastChar /\ ~HasNext

C8_MissingArgument ==
    Decoded =>
        /\ (ret.err.kind = "MissingArgumentError") <=> C8_MissingCase
        /\ C8_MissingCase =>
              /\ ret.opt.nil
              /\ ret.err = MissingArgumentError(Ch)
              /\ err = ret.err
              /\ Unmoved
        /\ ( /\ Declared(Ch) /\ Policy(Ch) # "None" /\ LastChar /\ ~HasNext
             /\ ~C8_MissingCase )
              => (Returned(Ch, NilStr) /\ Moved(1))

(* C9: when the character at the cursor is not an option character        *)
(* declared in the optstring, Option() returns InvalidOptionError with    *)
(* that character and no option, and leaves the cursor where it is.       *)
C9_InvalidOption ==
    (Decoded /\ ~Declared(Ch)) =>
        /\ ret.opt.nil
        /\ ret.err = InvalidOptionError(Ch)
        /\ err = ret.err
        /\ Unmoved

(* C10: no call panics, whatever the optstring and the argument vector,   *)
(* an empty vector included.                                              *)
C10_NoPanic == pc # "panic"
(* C11: every option Option() returns has an absent or a non-empty        *)
(* argument, never a present empty string; a Required option followed by  *)
(* an element that is "" consumes that element (elementIndex + 2, so the  *)
(* "" is not in Args()) and is returned without argument and without      *)
(* error.                                                                 *)
C11_NeverEmpty ==
    (Decoded /\ ~ret.opt.nil) => (ret.opt.Arg.nil \/ ret.opt.Arg.s # <<>>)

C11_EmptyConsumed ==
    /\ Returned(Ch, NilStr)
    /\ Moved(2)
    /\ ArgsResult = SubSeq(argv, prev.optind + 3, Len(argv))

C11_EmptyNormalization ==
    /\ C11_NeverEmpty
    /\ (C3_Case /\ NextElem = <<>>) => C11_EmptyConsumed

(* C11 as amended: the same, the consumption of the "" element holding    *)
(* when the optstring does not start with ':'.                            *)
C11_EmptyNormalizationAmended ==
    /\ C11_NeverEmpty
    /\ (C3_Case /\ ~GlobalOptional /\ NextElem = <<>>) => C11_EmptyConsumed

\* a Required option has consumed an element that is ""
C11_Witness ==
    /\ C3_Case
    /\ ~GlobalOptional
    /\ NextElem = <<>>
    /\ ~ret.opt.nil
    /\ ~HasArg(ret.opt)
    /\ optind = prev.optind + 2
(* C12: an element '-' followed by k declared no-argument options yields  *)
(* k options over k Scan()/Option() steps, in the order of the characters *)
(* in the element, each without argument; charOffset advances by 1 per    *)
(* step and the cursor moves to (elementIndex + 1, 1) only after the last *)
(* character.  The option sequence is that of the characters, however     *)
(* they are split over elements.                                          *)
C12_Cluster(e) ==
    /\ Len(e) >= 2
    /\ e[1] = "-"
    /\ \A i \in 2..Len(e) : Declared(e[i]) /\ Policy(e[i]) = "None"

C12_AllClusters == \A i \in 2..Len(argv) : C12_Cluster(argv[i])

RECURSIVE C12_Flat(_)
C12_Flat(es) == IF es = <<>> THEN <<>> ELSE Tail(Head(es)) \o C12_Flat(Tail(es))

\* the option characters before the cursor
C12_Before ==
    C12_Flat(SubSeq(argv, 2, optind)) \o
    (IF optind < Len(argv) THEN SubSeq(At(argv, optind), 2, optpos) ELSE <<>>)

C12_Clustering ==
    /\ (Decoded /\ C12_Cluster(Elem)) =>
          /\ Returned(Ch, NilStr)
          /\ IF LastChar
             THEN Moved(1)
             ELSE optind = prev.optind /\ optpos = prev.optpos + 1
    /\ (pc = "ready" /\ C12_AllClusters) => (err = NoErr /\ opts = C12_Before)
    /\ (scanned /\ C12_Cluster(arg)) => optpos < Len(arg)

\* the last option of the cluster -ab has been returned, after a, under an
\* optstring that declares b before a
C12_Witness ==
    /\ Decoded
    /\ optstring = <<"b", "a">>
    /\ C12_AllClusters
    /\ Elem = <<"-", "a", "b">>
    /\ LastChar
    /\ Moved(1)
    /\ Len(opts) >= 2
    /\ opts[Len(opts) - 1] = "a"
    /\ opts[Len(opts)] = "b"
(* C13: when the element at the cursor is not "--" and does not start     *)
(* with '-' followed by an alphanumeric character, Scan() returns false   *)
(* without moving the cursor, Args() is the slice of argv that begins     *)
(* with that element, and nothing after it is ever decoded.               *)
C13_Positional(e) ==
    /\ e # <<"-", "-">>
    /\ ~(Len(e) >= 2 /\ e[1] = "-" /\ isOptionChar(e[2]))

C13_AtPositional ==
    pc = "ready" /\ optind < Len(argv) /\ C13_Positional(At(argv, optind))

C13_NoPermutation ==
    /\ [](C13_AtPositional =>
            /\ ~scanned
            /\ ret.op = "Scan" => ~ret.ok
            /\ ArgsResult = SubSeq(argv, optind + 1, Len(argv))
            /\ Head(ArgsResult) = At(argv, optind))
    /\ [][C13_AtPositional =>
            /\ optind' = optind
            /\ optpos' = optpos
            /\ opts' = opts
            /\ err' = err
            /\ ret'.op # "Option"
            /\ ret'.op = "Scan" => ~ret'.ok]_vars

\* Scan() has stopped at a positional element that a declared option follows
C13_Witness ==
    /\ C13_AtPositional
    /\ ret.op = "Scan"
    /\ prev.optind = optind
    /\ optind + 1 < Len(argv)
    /\ At(argv, optind + 1) = <<"-", "a">>
    /\ Declared("a")
(* C14: NewArgv returns an error and no Scanner exactly when the          *)
(* optstring has a character that is neither alphanumeric nor ':', before *)
(* anything is scanned; an optstring of alphanumerics and ':' only, the   *)
(* empty one included, always yields a Scanner with the cursor at (1, 1). *)
C14_BadOptstring ==
    \E i \in 1..Len(optstring) :
        optstring[i] \notin (Upper \cup Lower \cup Digits \cup {":"})

C14_ConstructionValidation ==
    pc # "start" =>
        /\ C14_BadOptstring =>
              /\ pc = "error"
              /\ ret.op = "NewArgv"
              /\ ~ret.ok
              /\ ret.err.kind = "invalid optstring character"
              /\ opts = <<>>
              /\ Cursor = [optind |-> 0, optpos |-> 0]
        /\ ~C14_BadOptstring =>
              /\ pc = "ready"
              /\ ret.op = "NewArgv" => (ret.ok /\ Cursor = [optind |-> 1, optpos |-> 1])
(* C15: argv[0] is never scanned: no option is decoded from it and        *)
(* Args() never contains it, also when it looks like an option or is      *)
(* "--"; scanning starts at element index 1.                              *)
C15_Argv0NeverScanned ==
    pc = "ready" =>
        /\ optind >= 1
        /\ ret.op \in {"Scan", "Option", "Args"} => prev.optind >= 1
        /\ scanned => arg = At(argv, optind)
        /\ ArgsResult = SubSeq(argv, optind + 1, Len(argv))
        /\ Len(ArgsResult) <= Len(argv) - 1
        /\ ret.op = "Args" =>
              /\ Len(ret.args) <= Len(argv) - 1
              /\ \A i \in 1..Len(ret.args) :
                    ret.args[i] = argv[Len(argv) - Len(ret.args) + i]
        /\ Len(argv) = 1 => opts = <<>>

\* Scan() has found nothing to decode although argv[0] is a declared option
C15_Witness ==
    /\ pc = "ready"
    /\ ret.op = "Scan"
    /\ ~ret.ok
    /\ argv = << <<"-", "a">> >>
    /\ Declared("a")
    /\ opts = <<>>
(* C16: Args() is a pure read: it changes neither elementIndex,           *)
(* charOffset, the error status nor argv, so consecutive Args() calls     *)
(* return the same sequence, the suffix of argv that starts at            *)
(* elementIndex (empty at the end of argv).                               *)
C16_ArgsPureRead ==
    [][Args =>
        /\ UNCHANGED <<pc, optstring, argv, optind, arg, optpos, err,
                       progname, opts>>
        /\ ret'.op = "Args"
        /\ ret'.args = SubSeq(argv, optind + 1, Len(argv))
        /\ optind = Len(argv) => ret'.args = <<>>
        /\ ret.op = "Args" => ret'.args = ret.args]_vars

\* Args() has returned a non-empty rest after options were decoded
C16_Witness ==
    /\ pc = "ready"
    /\ ret.op = "Args"
    /\ opts # <<>>
    /\ ret.args # <<>>
    /\ ret.args = SubSeq(argv, optind + 1, Len(argv))
(* C17: every option Option() returns has an alphanumeric character that *)
(* the optstring declares; a non-alphanumeric character met inside a      *)
(* cluster, ':' in particular, is never returned as an option but         *)
(* reported as InvalidOption.                                             *)
C17_OptionsAreDeclared ==
    Decoded =>
        /\ ~ret.opt.nil => (isOptionChar(ret.opt.Opt) /\ Declared(ret.opt.Opt))
        /\ ~isOptionChar(Ch) =>
              (ret.opt.nil /\ ret.err = InvalidOptionError(Ch))
        /\ \A i \in 1..Len(opts) : isOptionChar(opts[i])
(* C18: when an option character occurs more than once in the optstring, *)
(* Option() applies the argument policy of its first occurrence ("aa:":   *)
(* no argument, "a:a": a required one), whatever later occurrences        *)
(* declare.                                                               *)
C18_Duplicate(c) ==
    Cardinality({ i \in 1..Len(optstring) : optstring[i] = c }) > 1

\* the policy that the colons after position i (0-based) declare
C18_PolicyAt(i) ==
    IF ColonAt(i + 1) /\ ColonAt(i + 2) THEN "Optional"
    ELSE IF ColonAt(i + 1) THEN "Required"
    ELSE "None"

C18_LastDecl(c) ==
    CHOOSE i \in 0..(Len(optstring) - 1) :
        At(optstring, i) = c /\ \A j \in (i + 1)..(Len(optstring) - 1) : At(optstring, j) # c

\* the last Option() treated its character as an option of this policy
C18_Applied(policy) ==
    LET optional == GlobalOptional \/ policy = "Optional"
    IN IF policy = "None"
       THEN /\ Returned(Ch, NilStr)
            /\ IF LastChar
               THEN Moved(1)
               ELSE optind = prev.optind /\ optpos = prev.optpos + 1
       ELSE IF ~LastChar
       THEN /\ Returned(Ch, StrPtr(SubSeq(Elem, prev.optpos + 2, Len(Elem))))
            /\ Moved(1)
       ELSE IF HasNext
       THEN IF optional /\ OptionLike(NextElem)
            THEN Returned(Ch, NilStr) /\ Moved(1)
            ELSE /\ Moved(2)
                 /\ ~ret.opt.nil
                 /\ ret.opt.Opt = Ch
                 /\ String(ret.opt) = NextElem
                 /\ HasArg(ret.opt) <=> NextElem # <<>>
       ELSE IF optional
       THEN Returned(Ch, NilStr) /\ Moved(1)
       ELSE /\ ret.opt.nil
            /\ ret.err = MissingArgumentError(Ch)
            /\ Unmoved

C18_FirstDeclarationWins ==
    (Decoded /\ Declared(Ch) /\ C18_Duplicate(Ch)) =>
        C18_Applied(C18_PolicyAt(FirstDecl(Ch)))

\* the later declaration gives another policy, which was not applied
C18_Witness ==
    /\ Decoded
    /\ Declared(Ch)
    /\ C18_Duplicate(Ch)
    /\ C18_PolicyAt(FirstDecl(Ch)) # C18_PolicyAt(C18_LastDecl(Ch))
    /\ C18_PolicyAt(FirstDecl(Ch)) = "Required"
    /\ ~C18_Applied(C18_PolicyAt(C18_LastDecl(Ch)))
(* C19: in every state reached by Scan()/Option() steps charOffset is at  *)
(* least 1, and it is 1 right after any step that changed elementIndex    *)
(* (inline capture, next-element capture, absent-argument advance, end of *)
(* a no-argument cluster, the "--" consumption in Scan()).                *)
C19_CursorInvariant ==
    pc = "ready" =>
        /\ optpos >= 1
        /\ optind # prev.optind => optpos = 1

\* the end of a cluster: elementIndex has advanced from an offset beyond 1
C19_Witness ==
    /\ Decoded
    /\ Declared(Ch)
    /\ ~ret.opt.nil
    /\ optind = prev.optind + 1
    /\ prev.optpos >= 2
    /\ optpos = 1
(* C20: a Scan() that returns true leaves elementIndex, charOffset and   *)
(* the error status unchanged, so a Scan() called again with no Option()  *)
(* in between returns true again in the same state; Scan() changes the    *)
(* cursor only on the element "--", where elementIndex grows by exactly 1. *)
C20_ScanDoesNotConsume ==
    [][Scan =>
        /\ pc' = "ready"
        /\ ret'.op = "Scan"
        /\ optpos' = optpos
        /\ err' = err
        /\ opts' = opts
        /\ ret'.ok => optind' = optind
        /\ scanned => (ret'.ok /\ arg' = arg)
        /\ optind' # optind =>
              /\ optind' = optind + 1
              /\ At(argv, optind) = <<"-", "-">>
              /\ ~ret'.ok]_vars

\* Scan() has returned true in the middle of a cluster
C20_Witness ==
    /\ pc = "ready"
    /\ ret.op = "Scan"
    /\ ret.ok
    /\ scanned
    /\ prev = Cursor
    /\ optpos = 2
    /\ opts # <<>>

-----------------------------------------------------------------------------
(* C21: for a non-empty argv and a valid optstring no call panics, the     *)
(* element index stays within 1..len(argv) and never decreases, right      *)
(* after a Scan() that returned true the index names an element of argv    *)
(* and the character offset lies inside it, and an argument taken from     *)
(* the next element is an element of argv.                                 *)
C21_NextCapture == Decoded /\ optind = prev.optind + 2

C21_CursorBounds ==
    argv # <<>> =>
        /\ pc # "panic"
        /\ pc = "ready" =>
              /\ 1 <= optind
              /\ optind <= Len(argv)
              /\ prev.optind <= optind
        /\ scanned =>
              /\ optind < Len(argv)
              /\ arg = At(argv, optind)
              /\ 1 <= optpos
              /\ optpos < Len(At(argv, optind))
        /\ C21_NextCapture =>
              /\ prev.optind + 1 < Len(argv)
              /\ ~ret.opt.nil
              /\ ret.opt.Arg.s = NextElem

\* an argument taken from the last element leaves the cursor at len(argv)
C21_Witness ==
    /\ C21_NextCapture
    /\ optind = Len(argv)
    /\ Len(argv) = 3
    /\ Declared(Ch)
    /\ ret.opt.Arg = StrPtr(At(argv, 2))

-----------------------------------------------------------------------------
(* C22: the loop for Scan() { Option() } terminates, also when the caller  *)
(* goes on after an error: an Option() that returns an option moves the    *)
(* cursor (optind, optpos) strictly forward in lexicographic order, an     *)
(* Option() that returns an error records it and a Scan() on a recorded    *)
(* error returns false, the number of Option() calls is at most the        *)
(* number of characters in argv[1..], and the loop is eventually left.     *)
RECURSIVE SumLen(_)
SumLen(s) == IF s = <<>> THEN 0 ELSE Len(Head(s)) + SumLen(Tail(s))

C22_TotalChars == IF argv = <<>> THEN 0 ELSE SumLen(Tail(argv))

C22_Increases ==
    (Decoded /\ ~ret.opt.nil) =>
        \/ prev.optind < optind
        \/ (prev.optind = optind /\ prev.optpos < optpos)

C22_ErrorStops ==
    /\ (Decoded /\ ret.opt.nil) => (ret.err # NoErr /\ err = ret.err)
    /\ err # NoErr => (pc = "ready" /\ ~scanned)
    /\ (ret.op = "Scan" /\ err # NoErr) => ~ret.ok

C22_Bounded == calls <= C22_TotalChars

\* no scanner was made, or Scan() has returned false
C22_LoopLeft ==
    \/ pc = "error"
    \/ (pc = "panic" /\ argv = <<>>)
    \/ (pc = "ready" /\ ret.op = "Scan" /\ ~ret.ok)

C22_Termination ==
    /\ [](C22_Increases /\ C22_ErrorStops /\ C22_Bounded)
    /\ <>C22_LoopLeft

\* the loop was left after two options and an error the caller ignored
C22_Witness ==
    /\ pc = "ready"
    /\ ret.op = "Args"
    /\ err # NoErr
    /\ Len(opts) = 2
    /\ calls = 3
    /\ Len(argv) = 3

====
